---- MODULE Spec2Model ----
(***************************************************************************)
(* Model of taildrop's receive path: incomingFile.Write and                *)
(* Manager.PutFile (src/taildrop/send.go).                                  *)
(*                                                                         *)
(* Each concurrent PutFile call is a process Calls[p] whose program        *)
(* counter follows the statements of PutFile.  The storage directory is a  *)
(* function from the paths that exist to the bytes of the file.            *)
(* Time is counted in half seconds.                                        *)
(***************************************************************************)
EXTENDS Integers, Sequences, FiniteSets, TLC

\* ------------------------------------------------------------- bounds
\* Longest file, in bytes.
MaxLen == 2
\* Last instant of the injected clock (SpecWrite).
MaxClock == 6
\* Most bytes written through one incomingFile (SpecWrite).
MaxWrites == 4

\* ------------------------------------------------------------- constants
\* maxRetries := 10
MaxRetries == 10
\* time.Second, in clock ticks of half a second.
Second == 2

\* The PutFile calls of a behaviour: a first and a second one, running
\* one after the other or concurrently.
Calls == {1, 2}
\* Client ids of the senders; "" is the id PutFile uses in no-rename mode.
Ids == {"a", "b"}
\* Base names that joinDir accepts, and one it rejects.
GoodNames == {"f"}
BadNames == {"../f"}
\* Byte values of file contents.
Bytes == {1, 2}

\* Error values.  NoErr is Go's nil error.  EIO is the error of a failing file
\* operation, an *os.PathError that names the path it failed on.
NoErr == "nil"
EIO == "EIO: path"

VARIABLES
    DirectFileMode,    \* Manager.DirectFileMode
    AvoidFinalRename,  \* Manager.AvoidFinalRename
    incomingFiles,     \* Manager.incomingFiles: the set of keys present
    renameMu,          \* Manager.renameMu: 0 when free, else the call holding it
    knownEmpty,        \* Manager.knownEmpty
    fs,                \* the files of Manager.Dir: path -> content
    now,               \* the reading of Manager.Clock
    call               \* the PutFile calls: parameters, locals, position, result

vars == <<DirectFileMode, AvoidFinalRename, incomingFiles, renameMu, knownEmpty,
          fs, now, call>>

\* ------------------------------------------------------------- paths
\* A path of Manager.Dir: base name, the number of NextFilename steps applied
\* to it, and the partial suffix ("" for a destination file).
DstPath(name) == [base |-> name, n |-> 0, sfx |-> ""]

\* joinDir: the destination path of baseName, or an error for a name that does
\* not resolve inside the storage root.
joinDirOK(baseName) == baseName \in GoodNames

\* ClientID.partialSuffix.
partialSuffix(id) == IF id = "" THEN ".partial" ELSE "." \o id \o ".partial"

\* partialPath := dstPath + id.partialSuffix()
PartialPath(dstPath, id) == [dstPath EXCEPT !.sfx = partialSuffix(id)]

\* NextFilename: the next candidate, never the path itself.
NextFilename(path) == [path EXCEPT !.n = @ + 1]

\* ------------------------------------------------------------- files
Exists(f, path) == path \in DOMAIN f
FsPut(f, path, content) ==
    [x \in (DOMAIN f) \cup {path} |-> IF x = path THEN content ELSE f[x]]
FsDel(f, path) == [x \in (DOMAIN f) \ {path} |-> f[x]]

\* os.OpenFile(partialPath, os.O_CREATE|os.O_RDWR, 0666): creates an empty
\* file when there is none, and leaves an existing file as it is.
OpenFile(f, path) == IF Exists(f, path) THEN f ELSE FsPut(f, path, <<>>)

\* f.Truncate(offset)
Truncate(content, offset) == SubSeq(content, 1, offset)

\* One byte written at the file position pos.
WriteAt(content, pos, b) ==
    IF pos < Len(content) THEN [content EXCEPT ![pos + 1] = b]
    ELSE Append(content, b)

\* os.Rename(oldpath, newpath): replaces newpath when it exists.
Rename(f, oldpath, newpath) == FsPut(FsDel(f, oldpath), newpath, f[oldpath])

\* sha256File: the digest of a content.  Injective on the contents of the
\* model, as SHA-256 is taken to be collision free.
RECURSIVE sha256(_)
sha256(content) ==
    IF content = <<>> THEN 1
    ELSE sha256(SubSeq(content, 1, Len(content) - 1)) * 3 + content[Len(content)]

\* redactErr: an error that names a local path is replaced by one that names
\* none; any other error, and the nil error, is returned as it is.
redactErr(err) == IF err = EIO THEN "EIO: redacted" ELSE err

\* redactAndLogError(action, err)
redactAndLogError(action, err) == redactErr(err)

\* ------------------------------------------------------------- calls
\* A PutFile call before it is made.  The fields are the parameters and local
\* variables of PutFile, the fields of its incomingFile, and its result.
IdleCall ==
    [pc |-> "idle",
     sender |-> "",                \* the parameter id as the caller passed it
     id |-> "", baseName |-> "", offset |-> 0,
     noDir |-> FALSE,              \* line 75: m == nil || m.Dir == ""
     gateOff |-> FALSE,            \* line 77: !envknob.CanTaildrop()
     blocked |-> FALSE,            \* line 79: distro is Unraid && !m.DirectFileMode
     length |-> -2,                \* -2: not drawn yet (see Call)
     admitted |-> FALSE,           \* LoadOrInit returned loaded = false
     dstPath |-> DstPath(""),
     partialPath |-> DstPath(""),
     err |-> NoErr,                \* the variable err of PutFile's own scope
     maxRetries |-> MaxRetries,
     fileLength |-> 0,
     partialSum |-> 0,             \* computePartialSum's memo; 0: not computed
     n |-> 0,                      \* n of line 40: bytes written, not counted yet
     copied |-> 0,                 \* incomingFile.copied
     done |-> FALSE,               \* incomingFile.done
     lastNotify |-> 0,             \* incomingFile.lastNotify; 0: the zero Time
     mu |-> FALSE,                 \* incomingFile.mu is held
     needNotify |-> FALSE,
     wnow |-> 0,                   \* now := f.clock.Now() of the last Write
     ret |-> 0, rerr |-> NoErr,    \* the values PutFile returns
     site |-> "",                  \* the return statement taken
     rd |-> <<>>,                  \* the bytes read from r so far
     prior |-> <<>>,               \* the partial file's content when opened
     notes |-> <<>>,               \* Write's notifications: the clock reading of each
     doneNotify |-> 0,             \* sendFileNotify calls made by PutFile itself
     rmFailed |-> FALSE]           \* the os.Remove of line 133 was called and failed

\* C13 mutant: the no-rename mode is never entered.
avoidPartialRenameOff == FALSE

\* avoidPartialRename := m.DirectFileMode && m.AvoidFinalRename
avoidPartialRename == DirectFileMode /\ AvoidFinalRename

\* incomingFileKey{id, baseName}
Key(c) == <<c.id, c.baseName>>

\* A return statement of PutFile after admission: the deferred calls run in
\* the action Return.
Ret(c, length, err, site) ==
    [c EXCEPT !.pc = "return", !.ret = length, !.rerr = err, !.site = site]

\* The directory when the Manager is made: empty, or holding the partial file
\* that a failed transfer of "f" left there (from sender "a"; in no-rename
\* mode the partial file carries no sender).
EmptyDir == <<>>
LeftoverDir(id) == FsPut(EmptyDir, PartialPath(DstPath("f"), id), <<1, 2>>)

\* The Manager after construction.  Direct mode with the final rename differs
\* from the default mode in the platform check of line 79 alone, and starts
\* from the empty directory only.
Init ==
    /\ \/ /\ DirectFileMode = FALSE /\ AvoidFinalRename = FALSE
          /\ fs \in {EmptyDir, LeftoverDir("a")}
       \/ /\ DirectFileMode = TRUE /\ AvoidFinalRename = FALSE
          /\ fs = EmptyDir
       \/ /\ DirectFileMode = TRUE /\ AvoidFinalRename = TRUE
          /\ fs \in {EmptyDir, LeftoverDir("")}
    /\ incomingFiles = {}
    /\ renameMu = 0
    /\ knownEmpty = TRUE
    /\ now = 1
    /\ call = [p \in Calls |-> IdleCall]

\* C1 mutant: LoadOrInit never reports an existing entry.
LoadedNever(files, key) == FALSE

\* Lines 107-121, m.incomingFiles.LoadOrInit: loaded, the key has an entry.
Loaded(files, key) == key \in files

\* The ids a call may come from.  Senders are named in the order they first
\* call: the first call is from "a".
SenderIds(p) == IF p = 1 THEN {"a"} ELSE Ids

\* C19 mutant: the key is built from the id as the caller passed it.
InFileKeyOfSender(sender, id, baseName) == <<sender, baseName>>

\* Line 106: inFileKey := incomingFileKey{id, baseName}, with the id as it is
\* after lines 94-98 (sender is the id as the caller passed it).
InFileKey(sender, id, baseName) == <<id, baseName>>

\* C14 mutant: the platform check of line 79 is lost.
PreconditionNoPlatform(noDir, gateOff, blocked, baseName) ==
    IF noDir \/ gateOff THEN "ErrNoTaildrop"
    ELSE IF ~joinDirOK(baseName) THEN "PathError"
    ELSE NoErr

\* Lines 74-85: the error of the first precondition that fails, or nil.
Precondition(noDir, gateOff, blocked, baseName) ==
    IF noDir THEN "ErrNoTaildrop"
    ELSE IF gateOff THEN "ErrNoTaildrop"
    ELSE IF blocked THEN "ErrNotAccessible"
    ELSE IF ~joinDirOK(baseName) THEN "PathError"
    ELSE NoErr

\* PutFile, lines 73-122: the preconditions, the path, and LoadOrInit.  Calls
\* are numbered in the order they are made.  Every call keeps what the
\* preconditions read; a call that fails them, or is rejected, keeps besides
\* only its result and its name (a rejected call its key): nothing else of it
\* is read again.
\* The parameter length is read by PutFile at line 166 alone (line 111 stores
\* it in incomingFile.size, which this file never reads), so its value is
\* drawn there, in Copy.  The return at line 151 draws it too: it is the one
\* return before line 166 whose error the model does not fix.  A call that
\* fails before line 166 with an error fails whatever its length is.
Call(p) ==
    /\ call[p].pc = "idle"
    /\ \A q \in Calls : q < p => call[q].pc # "idle"
    /\ \E noDir \in BOOLEAN, gateOff \in BOOLEAN, unraid \in BOOLEAN,
          id0 \in SenderIds(p), baseName \in GoodNames \cup BadNames,
          offset \in -1..MaxLen :
        LET id == IF avoidPartialRename THEN "" ELSE id0
            dstPath == DstPath(baseName)
            inFileKey == InFileKey(id0, id, baseName)
            blocked == unraid /\ ~DirectFileMode
            pre == Precondition(noDir, gateOff, blocked, baseName)
            made == [IdleCall EXCEPT !.sender = id0,
                                     !.baseName = baseName, !.noDir = noDir,
                                     !.gateOff = gateOff, !.blocked = blocked]
        IN  IF pre # NoErr
            THEN /\ call' = [call EXCEPT ![p] =
                        [made EXCEPT !.pc = "done", !.rerr = pre,
                                     !.site = "Precondition"]]
                 /\ UNCHANGED incomingFiles
            ELSE IF Loaded(incomingFiles, inFileKey)
            THEN /\ call' = [call EXCEPT ![p] =
                        [made EXCEPT !.pc = "done", !.id = id,
                                     !.rerr = "ErrFileExists",
                                     !.site = "Loaded"]]
                 /\ UNCHANGED incomingFiles
            ELSE /\ call' = [call EXCEPT ![p] =
                        [made EXCEPT !.pc = "open", !.id = id,
                                     !.offset = offset,
                                     !.admitted = TRUE,
                                     !.dstPath = dstPath,
                                     !.partialPath = PartialPath(dstPath, id)]]
                 /\ incomingFiles' = incomingFiles \cup {inFileKey}
    /\ UNCHANGED <<DirectFileMode, AvoidFinalRename, renameMu, knownEmpty, fs, now>>

\* Line 125-141: os.OpenFile of the partial file.
Open(p) ==
    /\ call[p].pc = "open"
    /\ \/ /\ call' = [call EXCEPT ![p] =
                 Ret([@ EXCEPT !.err = EIO], 0, redactAndLogError("Create", EIO), "Create")]
          /\ UNCHANGED fs
       \/ /\ fs' = OpenFile(fs, call[p].partialPath)
          /\ call' = [call EXCEPT ![p].prior = fs'[call[p].partialPath],
                                  ![p].pc = IF call[p].offset # 0 THEN "seek" ELSE "copy"]
    /\ UNCHANGED <<DirectFileMode, AvoidFinalRename, incomingFiles, renameMu, knownEmpty, now>>

\* Line 150: the offset cannot be resumed from.
OffsetInvalid(offset, currLength) == offset < 0 \/ offset > currLength

\* Lines 145-159, run when offset # 0: the Seek to the end, the check of the
\* offset, the Seek to it and the Truncate.  They act on the call's own partial
\* file and handle.  At line 151 the err in scope is the nil error of the Seek
\* at line 146 that just succeeded.
Resume(p) ==
    /\ call[p].pc = "seek"
    /\ LET currLength == Len(fs[call[p].partialPath])
           valid == ~OffsetInvalid(call[p].offset, currLength)
       IN  \/ /\ call' = [call EXCEPT ![p] =
                     Ret(@, 0, redactAndLogError("Seek", EIO), "Seek")]
              /\ UNCHANGED fs
           \/ /\ ~valid
              /\ \E length \in -1..MaxLen :
                    call' = [call EXCEPT ![p] =
                        Ret([@ EXCEPT !.length = length], 0,
                            redactAndLogError("Seek", NoErr), "Offset")]
              /\ UNCHANGED fs
           \/ /\ valid
              /\ call' = [call EXCEPT ![p] =
                     Ret(@, 0, redactAndLogError("Truncate", EIO), "Truncate")]
              /\ UNCHANGED fs
           \/ /\ valid
              /\ fs' = [fs EXCEPT ![call[p].partialPath] = Truncate(@, call[p].offset)]
              /\ call' = [call EXCEPT ![p].pc = "copy"]
    /\ UNCHANGED <<DirectFileMode, AvoidFinalRename, incomingFiles, renameMu, knownEmpty, now>>

\* C16 mutant: f.mu is still held when Write's deferred calls have run.
WUnlockRecHeld(c) == c

\* Line 50, the deferred f.mu.Unlock(): it runs before the notifier.
WUnlockRec(c) == [c EXCEPT !.mu = FALSE]

\* C10 mutant: a notification is due once a full second has passed.
NotifyDueAtSecond(lastNotify, t) == lastNotify = 0 \/ t - lastNotify >= Second

\* Line 53: f.lastNotify.IsZero() || now.Sub(f.lastNotify) > time.Second
NotifyDue(lastNotify, t) == lastNotify = 0 \/ t - lastNotify > Second

\* Line 54: f.lastNotify = now
SetLastNotify(lastNotify, t) == t

\* incomingFile.Write, lines 48-56, after a write of n = 1 byte: under f.mu,
\* count the byte, read the clock (t) and decide whether to notify.
WUpdateRec(c, t) ==
    LET due == NotifyDue(c.lastNotify, t)
    IN  [c EXCEPT !.mu = TRUE,
                  !.copied = @ + c.n,
                  !.n = 0,
                  !.lastNotify = IF due THEN SetLastNotify(@, t) ELSE @,
                  !.needNotify = due,
                  !.wnow = t]

\* Lines 43-47, the deferred f.sendFileNotify().
WNotifyRec(c) ==
    IF c.needNotify
    THEN [c EXCEPT !.notes = Append(@, c.wnow), !.needNotify = FALSE]
    ELSE c

\* incomingFile.Write, lines 41-59, once f.w.Write has written the byte.
WriteRec(c, t) == WNotifyRec(WUnlockRec(WUpdateRec(c, t)))

\* Line 166: the declared length is known and differs from what was copied.
LengthMismatch(length, copyLength) == length >= 0 /\ copyLength # length

\* C5 mutant: the Seek to the offset (line 153) is lost, and the bytes go to
\* the start of the file.
FilePosNoSeek(offset, copied) == copied

\* The position of the handle f during the copy: the offset that line 153
\* seeks to (0 when nothing was sought), advanced by every byte written.
FilePos(offset, copied) == offset + copied

\* Lines 162-168, io.Copy(inFile, r), one round: r.Read gives a byte, which
\* inFile.Write writes to the partial file at the file position (or fails to,
\* with n = 0); or r ends, io.Copy returns and the length is checked; or r
\* fails.  Reader, handle and partial file are the call's own.
Copy(p) ==
    /\ call[p].pc = "copy"
    /\ \/ /\ call[p].offset + Len(call[p].rd) < MaxLen
          /\ \E b \in Bytes :
              \/ /\ fs' = [fs EXCEPT ![call[p].partialPath] =
                              WriteAt(@, FilePos(call[p].offset, call[p].copied), b)]
                 /\ call' = [call EXCEPT ![p] =
                        WriteRec([@ EXCEPT !.rd = Append(@, b), !.n = 1], now)]
              \/ /\ call' = [call EXCEPT ![p] =
                        Ret([@ EXCEPT !.rd = Append(@, b), !.err = EIO], 0,
                            redactAndLogError("Copy", EIO), "Copy")]
                 /\ UNCHANGED fs
       \/ /\ \E length \in -1..MaxLen :
                IF LengthMismatch(length, call[p].copied)
                THEN call' = [call EXCEPT ![p] =
                        Ret([@ EXCEPT !.length = length], 0,
                            redactAndLogError("Copy", "ErrUnexpectedBytes"), "Length")]
                ELSE call' = [call EXCEPT ![p].length = length, ![p].pc = "close"]
          /\ UNCHANGED fs
       \/ /\ call' = [call EXCEPT ![p] =
                    Ret([@ EXCEPT !.err = "ErrRead"], 0,
                        redactAndLogError("Copy", "ErrRead"), "Copy")]
          /\ UNCHANGED fs
    /\ UNCHANGED <<DirectFileMode, AvoidFinalRename, incomingFiles, renameMu, knownEmpty, now>>

\* Line 172: fileLength := offset + copyLength
FileLength(offset, copyLength) == offset + copyLength

\* Lines 169-172: f.Close() and fileLength := offset + copyLength.
Close(p) ==
    /\ call[p].pc = "close"
    /\ \/ call' = [call EXCEPT ![p] = Ret(@, 0, redactAndLogError("Close", EIO), "Close")]
       \/ call' = [call EXCEPT ![p].fileLength = FileLength(call[p].offset, call[p].copied),
                               ![p].pc = IF avoidPartialRename THEN "early" ELSE "lock"]
    /\ UNCHANGED <<DirectFileMode, AvoidFinalRename, incomingFiles, renameMu, knownEmpty, fs, now>>

\* Lines 176-183: the early return of the no-rename mode.
Early(p) ==
    /\ call[p].pc = "early"
    /\ call' = [call EXCEPT ![p] =
            Ret([@ EXCEPT !.done = TRUE, !.doneNotify = @ + 1],
                call[p].fileLength, NoErr, "Early")]
    /\ knownEmpty' = FALSE
    /\ UNCHANGED <<DirectFileMode, AvoidFinalRename, incomingFiles, renameMu, fs, now>>

\* C2 mutant: renameMu.Lock() does not wait for the holder.
RenameMuNoWait(holder) == TRUE

\* Line 197, m.renameMu.Lock(): the lock can be taken.
RenameMuFree(holder) == holder = 0

\* C15 mutant: the deferred Unlock is lost and the holder keeps the lock.
RenameMuKept(holder) == holder

\* Line 198, the deferred m.renameMu.Unlock(): the lock after it.
RenameMuUnlock(holder) == 0

\* Line 197: m.renameMu.Lock().
Lock(p) ==
    /\ call[p].pc = "lock"
    /\ RenameMuFree(renameMu)
    /\ renameMu' = p
    /\ call' = [call EXCEPT ![p].pc = "stat"]
    /\ UNCHANGED <<DirectFileMode, AvoidFinalRename, incomingFiles, knownEmpty, fs, now>>

\* C11 mutant: the loop gives up with one retry left.
RetryOneLess(c) ==
    LET c2 == [c EXCEPT !.dstPath = NextFilename(@), !.maxRetries = @ - 1]
    IN  IF c2.maxRetries > 1 THEN [c2 EXCEPT !.pc = "lock"]
        ELSE Ret(c2, 0, "ErrTooManyRetries", "Retries")

\* Lines 233-238: the next candidate name, one retry less, and the error when
\* none is left.
Retry(c) ==
    LET c2 == [c EXCEPT !.dstPath = NextFilename(@), !.maxRetries = @ - 1]
    IN  IF c2.maxRetries > 0 THEN [c2 EXCEPT !.pc = "lock"]
        ELSE Ret(c2, 0, "ErrTooManyRetries", "Retries")

\* Line 216: dstLength == fileLength
SizeMatch(dstLength, fileLength) == dstLength = fileLength

\* Lines 199-216: os.Stat(dstPath) under renameMu.  A missing destination
\* leads to the rename, still under the lock; an existing one gives its size,
\* the lock is released, and the sizes are compared.
Stat(p) ==
    /\ call[p].pc = "stat"
    /\ \/ /\ call' = [call EXCEPT ![p] = Ret(@, 0, redactAndLogError("Rename", EIO), "Stat")]
          /\ renameMu' = RenameMuUnlock(renameMu)
       \/ /\ ~Exists(fs, call[p].dstPath)
          /\ call' = [call EXCEPT ![p].pc = "rename"]
          /\ UNCHANGED renameMu
       \/ /\ Exists(fs, call[p].dstPath)
          /\ LET dstLength == Len(fs[call[p].dstPath])
             IN  call' = [call EXCEPT ![p] =
                     IF SizeMatch(dstLength, call[p].fileLength)
                     THEN [@ EXCEPT !.pc = "hashPartial"]
                     ELSE Retry(@)]
          /\ renameMu' = RenameMuUnlock(renameMu)
    /\ UNCHANGED <<DirectFileMode, AvoidFinalRename, incomingFiles, knownEmpty, fs, now>>

\* Lines 201-213: os.Rename(partialPath, dstPath), then the lock is released.
RenameFile(p) ==
    /\ call[p].pc = "rename"
    /\ \/ /\ call' = [call EXCEPT ![p] = Ret(@, 0, redactAndLogError("Rename", EIO), "Rename")]
          /\ UNCHANGED fs
       \/ /\ fs' = Rename(fs, call[p].partialPath, call[p].dstPath)
          /\ call' = [call EXCEPT ![p].pc = "finish"]
    /\ renameMu' = RenameMuUnlock(renameMu)
    /\ UNCHANGED <<DirectFileMode, AvoidFinalRename, incomingFiles, knownEmpty, now>>

\* Lines 188-190, 217-220: computePartialSum(), computed once and kept.
HashPartial(p) ==
    /\ call[p].pc = "hashPartial"
    /\ \/ /\ call[p].partialSum = 0
          /\ call' = [call EXCEPT ![p] = Ret(@, 0, redactAndLogError("Rename", EIO), "HashPartial")]
       \/ call' = [call EXCEPT ![p].partialSum =
                        IF @ = 0 THEN sha256(fs[call[p].partialPath]) ELSE @,
                               ![p].pc = "hashDst"]
    /\ UNCHANGED <<DirectFileMode, AvoidFinalRename, incomingFiles, renameMu, knownEmpty, fs, now>>

\* C20 mutant: the digests are taken to match whenever the sizes do.
SumMatchAlways(dstSum, partialSum) == TRUE

\* Line 225: dstSum == partialSum
SumMatch(dstSum, partialSum) == dstSum = partialSum

\* Lines 221-231: the digest of the destination, compared with the partial's.
HashDst(p) ==
    /\ call[p].pc = "hashDst"
    /\ \/ call' = [call EXCEPT ![p] = Ret(@, 0, redactAndLogError("Rename", EIO), "HashDst")]
       \/ LET dstSum == sha256(fs[call[p].dstPath])
          IN  call' = [call EXCEPT ![p] =
                  IF SumMatch(dstSum, call[p].partialSum)
                  THEN [@ EXCEPT !.pc = "remove"]
                  ELSE Retry(@)]
    /\ UNCHANGED <<DirectFileMode, AvoidFinalRename, incomingFiles, renameMu, knownEmpty, fs, now>>

\* Lines 226-229: os.Remove(partialPath) after a content match.
RemovePartial(p) ==
    /\ call[p].pc = "remove"
    /\ \/ /\ call' = [call EXCEPT ![p] = Ret(@, 0, redactAndLogError("Remove", EIO), "Remove")]
          /\ UNCHANGED fs
       \/ /\ fs' = FsDel(fs, call[p].partialPath)
          /\ call' = [call EXCEPT ![p].pc = "finish"]
    /\ UNCHANGED <<DirectFileMode, AvoidFinalRename, incomingFiles, renameMu, knownEmpty, now>>

\* Lines 239-241: the successful return of the finalize protocol.
Finish(p) ==
    /\ call[p].pc = "finish"
    /\ call' = [call EXCEPT ![p] =
            Ret([@ EXCEPT !.doneNotify = @ + 1], call[p].fileLength, NoErr, "Done")]
    /\ knownEmpty' = FALSE
    /\ UNCHANGED <<DirectFileMode, AvoidFinalRename, incomingFiles, renameMu, fs, now>>

\* Lines 131-132: the deferred cleanup removes the partial file.
CleanupRemoves(err) == err # NoErr /\ avoidPartialRename

\* C9 mutant: the deferred Delete is lost.
DeleteNothing(files, key) == files

\* Line 122: m.incomingFiles.Delete(inFileKey)
Delete(files, key) == files \ {key}

\* The deferred calls of an admitted call, run when it returns: lines 129-140
\* (registered once the file is open; os.Remove is best effort), then line 122.
Return(p) ==
    /\ call[p].pc = "return"
    /\ LET cleanup == call[p].site # "Create" /\ CleanupRemoves(call[p].err)
       IN  \/ /\ cleanup
              /\ fs' = FsDel(fs, call[p].partialPath)
              /\ call' = [call EXCEPT ![p].pc = "done"]
           \/ /\ cleanup
              /\ call' = [call EXCEPT ![p].pc = "done", ![p].rmFailed = TRUE]
              /\ UNCHANGED fs
           \/ /\ ~cleanup
              /\ call' = [call EXCEPT ![p].pc = "done"]
              /\ UNCHANGED fs
    /\ incomingFiles' = Delete(incomingFiles, Key(call[p]))
    /\ UNCHANGED <<DirectFileMode, AvoidFinalRename, renameMu, knownEmpty, now>>

Next ==
    \E p \in Calls :
        \/ Call(p) \/ Open(p) \/ Resume(p) \/ Copy(p) \/ Close(p) \/ Early(p)
        \/ Lock(p) \/ Stat(p) \/ RenameFile(p)
        \/ HashPartial(p) \/ HashDst(p) \/ RemovePartial(p) \/ Finish(p)
        \/ Return(p)

Spec == Init /\ [][Next]_vars

\* ------------------------------------------------------------- progress
\* A step of call p after it was made.
Progress(p) ==
    \/ Open(p) \/ Resume(p) \/ Copy(p) \/ Close(p) \/ Early(p)
    \/ Lock(p) \/ Stat(p) \/ RenameFile(p)
    \/ HashPartial(p) \/ HashDst(p) \/ RemovePartial(p) \/ Finish(p)
    \/ Return(p)

\* Every PutFile call runs on a goroutine that is scheduled: the file system
\* calls return, the reader gives a byte, ends or fails (it gives at most
\* MaxLen bytes), and renameMu.Lock() returns once the lock stays free.  The
\* holder of renameMu can take it again only as often as it has retries.
Fairness == \A p \in Calls : WF_vars(Progress(p))

\* The Manager after construction over an empty directory, in default mode or
\* in no-rename mode.
InitLive ==
    /\ Init
    /\ DirectFileMode = AvoidFinalRename
    /\ fs = EmptyDir

SpecLive == InitLive /\ [][Next]_vars /\ Fairness

\* ------------------------------------------------------------- Write alone
\* incomingFile.Write under a clock that advances, called any number of times
\* on the incomingFile of one admitted call whose partial file is open.

\* The injected clock advances by half a second.
Tick ==
    /\ now < MaxClock
    /\ now' = now + 1
    /\ UNCHANGED <<DirectFileMode, AvoidFinalRename, incomingFiles, renameMu, knownEmpty, fs, call>>

\* Line 40 with any underlying writer: it takes the byte (n = 1) or none
\* (n = 0, and Write returns without counting or notifying).
WBegin(p) ==
    /\ call[p].pc = "copy"
    /\ call[p].copied < MaxWrites
    /\ \/ call' = [call EXCEPT ![p].pc = "wupdate", ![p].n = 1]
       \/ UNCHANGED call
    /\ UNCHANGED <<DirectFileMode, AvoidFinalRename, incomingFiles, renameMu, knownEmpty, fs, now>>

\* Lines 48-56, under f.mu.
WUpdate(p) ==
    /\ call[p].pc = "wupdate"
    /\ ~call[p].mu
    /\ call' = [call EXCEPT ![p] = [WUpdateRec(@, now) EXCEPT !.pc = "wunlock"]]
    /\ UNCHANGED <<DirectFileMode, AvoidFinalRename, incomingFiles, renameMu, knownEmpty, fs, now>>

\* Line 50, the deferred f.mu.Unlock().
WUnlock(p) ==
    /\ call[p].pc = "wunlock"
    /\ call' = [call EXCEPT ![p] = [WUnlockRec(@) EXCEPT !.pc = "wnotify"]]
    /\ UNCHANGED <<DirectFileMode, AvoidFinalRename, incomingFiles, renameMu, knownEmpty, fs, now>>

\* Lines 43-47, the deferred call of the notifier when needNotify is set; then
\* Write returns.
WNotify(p) ==
    /\ call[p].pc = "wnotify"
    /\ call' = [call EXCEPT ![p] = [WNotifyRec(@) EXCEPT !.pc = "copy"]]
    /\ UNCHANGED <<DirectFileMode, AvoidFinalRename, incomingFiles, renameMu, knownEmpty, fs, now>>

InitWrite ==
    /\ DirectFileMode = FALSE
    /\ AvoidFinalRename = FALSE
    /\ incomingFiles = {<<"a", "f">>}
    /\ renameMu = 0
    /\ knownEmpty = TRUE
    /\ fs = FsPut(EmptyDir, PartialPath(DstPath("f"), "a"), <<>>)
    /\ now = 1
    /\ call = [p \in Calls |->
                 IF p = 1
                 THEN [IdleCall EXCEPT !.pc = "copy", !.sender = "a",
                                       !.id = "a", !.baseName = "f",
                                       !.admitted = TRUE,
                                       !.dstPath = DstPath("f"),
                                       !.partialPath = PartialPath(DstPath("f"), "a")]
                 ELSE IdleCall]

NextWrite == Tick \/ WBegin(1) \/ WUpdate(1) \/ WUnlock(1) \/ WNotify(1)

SpecWrite == InitWrite /\ [][NextWrite]_vars

\* ------------------------------------------------------------- taken names
\* One PutFile call into a directory where the name "f" and its NextFilename
\* successors are taken by earlier transfers.

\* The first k candidate names of "f".
Candidates(k) == {[base |-> "f", n |-> i, sfx |-> ""] : i \in 0..(k - 1)}

\* A directory with the first k candidate names taken: the tenth, when taken,
\* holds the content last, the others hold <<2>>; and sender "a" has left a
\* partial file of one byte.
TakenDir(k, last) ==
    [path \in Candidates(k) \cup {PartialPath(DstPath("f"), "a")} |->
        IF path.sfx # "" THEN <<1>>
        ELSE IF path.n = MaxRetries - 1 THEN last
        ELSE <<2>>]

\* The Manager after construction, in default mode over a directory with nine
\* or ten names taken, or in no-rename mode over an empty directory.
InitTaken ==
    /\ \/ /\ DirectFileMode = FALSE /\ AvoidFinalRename = FALSE
          /\ fs \in {TakenDir(MaxRetries - 1, <<>>),
                      TakenDir(MaxRetries, <<2>>),
                      TakenDir(MaxRetries, <<1>>)}
       \/ /\ DirectFileMode = TRUE /\ AvoidFinalRename = TRUE
          /\ fs = EmptyDir
    /\ incomingFiles = {}
    /\ renameMu = 0
    /\ knownEmpty = TRUE
    /\ now = 1
    /\ call = [p \in Calls |-> IdleCall]

NextTaken ==
    \/ Call(1) \/ Open(1) \/ Resume(1) \/ Copy(1) \/ Close(1) \/ Early(1)
    \/ Lock(1) \/ Stat(1) \/ RenameFile(1)
    \/ HashPartial(1) \/ HashDst(1) \/ RemovePartial(1) \/ Finish(1)
    \/ Return(1)

SpecTaken == InitTaken /\ [][NextTaken]_vars

\* ------------------------------------------------------------- claims
\* A call past admission: between the LoadOrInit that returned loaded = false
\* and the deferred Delete.
Active(p) == call[p].admitted /\ call[p].pc # "done"

\* The call has returned.
Returned(p) == call[p].pc = "done"

\* The step in which call q is made (it leaves "idle").
Made(q) == call[q].pc = "idle" /\ call'[q].pc # "idle"

\* What the preconditions of lines 74-85 reject in a call that was made.
FailsPrecondition(c) ==
    c.noDir \/ c.gateOff \/ c.blocked \/ ~joinDirOK(c.baseName)

\* The destination files of the directory.
DstFiles(f) == {path \in DOMAIN f : path.sfx = ""}

\* C1: at every instant at most one call per key (id, baseName) is past
\* admission; and a call that passes the preconditions while another call
\* with the same key is past admission returns ErrFileExists at once, is not
\* admitted, and leaves every file of the directory as it was.
C1_SingleAdmission ==
    /\ [](\A p, q \in Calls :
            p # q /\ Active(p) /\ Active(q) => Key(call[p]) # Key(call[q]))
    /\ [][\A q \in Calls :
            (Made(q) /\ ~FailsPrecondition(call'[q])
             /\ \E p \in Calls \ {q} :
                    Active(p) /\ Key(call[p]) = Key(call'[q]))
            => /\ call'[q].rerr = "ErrFileExists"
               /\ call'[q].ret = 0
               /\ call'[q].pc = "done"
               /\ ~call'[q].admitted
               /\ fs' = fs]_vars

\* C1 witness: the second call was rejected while the first, with the same
\* key, is past admission and has its partial file open.
C1_Witness ==
    /\ call[2].rerr = "ErrFileExists"
    /\ Active(1)
    /\ Key(call[1]) = Key(call[2])
    /\ call[1].pc = "copy"

\* C2: the stat and the rename of one attempt run under renameMu, the
\* destination still does not exist when the rename is about to run, and no
\* step changes or removes a destination file that exists.
C2_NoOverwrite ==
    /\ [](\A p \in Calls :
            call[p].pc \in {"stat", "rename"} => renameMu = p)
    /\ [](\A p \in Calls :
            call[p].pc = "rename" => ~Exists(fs, call[p].dstPath))
    /\ [][\A path \in DstFiles(fs) :
            Exists(fs', path) /\ fs'[path] = fs[path]]_vars

\* C2 witness: two calls with different keys contend for the same destination
\* name: one is about to rename under the lock, the other waits for the lock.
C2_Witness ==
    \E p, q \in Calls :
        /\ p # q
        /\ Key(call[p]) # Key(call[q])
        /\ call[p].pc = "rename" /\ renameMu = p
        /\ call[q].pc = "lock"
        /\ call[q].dstPath = call[p].dstPath
        /\ fs[call[p].partialPath] # fs[call[q].partialPath]

\* The errors that the environment causes: a failing file operation, a failing
\* reader.
EnvErrs == {redactErr(EIO), "ErrRead"}

\* The content a call is to store: the first offset bytes of the partial file
\* it found, then the bytes of its reader.
Sent(c) == SubSeq(c.prior, 1, c.offset) \o c.rd

\* The call returned after its reader ended, with a valid offset, a declared
\* length that fits, no failure of the environment, and a candidate name left.
Delivered(c) ==
    /\ c.pc \in {"return", "done"}
    /\ c.admitted
    /\ c.offset >= 0 /\ c.offset <= Len(c.prior)
    /\ c.length = -1 \/ c.length = Len(c.rd)
    /\ c.rerr \notin EnvErrs \cup {"ErrTooManyRetries"}

\* C9: the registry holds exactly the keys of the calls past admission: a call
\* takes its key out on whatever path it returns.  A call that passes the
\* preconditions is rejected exactly when a call with its key is past
\* admission; rejected, it leaves the registry as it is; otherwise it is
\* admitted and its key entered.
C9_ScopedRelease ==
    /\ [](incomingFiles = {Key(call[p]) : p \in {q \in Calls : Active(q)}})
    /\ [][\A q \in Calls :
            (Made(q) /\ call'[q].site # "Precondition")
            => LET busy == \E p \in Calls \ {q} :
                              Active(p) /\ Key(call[p]) = Key(call'[q])
               IN  /\ (call'[q].rerr = "ErrFileExists") <=> busy
                   /\ busy => incomingFiles' = incomingFiles
                   /\ ~busy => /\ call'[q].admitted
                               /\ incomingFiles' = incomingFiles \cup {Key(call'[q])}]_vars

\* C9 witness: the first call was admitted and returned with an error, and
\* the second call, with the same key, is admitted after it.
C9_Witness ==
    /\ Returned(1) /\ call[1].admitted /\ call[1].rerr # NoErr
    /\ Active(2)
    /\ Key(call[2]) = Key(call[1])
    /\ incomingFiles = {Key(call[2])}

\* C10: Write's notifications, each stamped with the clock reading of the
\* Write that made it, are more than a second apart; and the first Write that
\* writes a byte notifies.
C10_NotifyRate ==
    \A p \in Calls :
        LET c == call[p]
        IN  /\ \A i \in 1..(Len(c.notes) - 1) : c.notes[i + 1] - c.notes[i] > Second
            /\ (c.copied >= 1 /\ c.pc = "copy") => Len(c.notes) >= 1
            /\ (c.copied = 1 /\ c.pc = "copy") => c.notes = <<c.wnow>>

\* C10 witness: four bytes written, the first and the fourth notified, the
\* two between them did not.
C10_Witness ==
    /\ call[1].pc = "copy"
    /\ call[1].copied = 4
    /\ Len(call[1].notes) = 2

\* C3 (as claimed): two calls with different keys that deliver the same name
\* and the same content in default mode both succeed, end at one and the same
\* destination file, which holds that content and is the only destination file
\* that does, and leave no partial file.
C3_DedupIdempotent ==
    \A p, q \in Calls :
        LET c == call[p]
            d == call[q]
        IN  (/\ p # q /\ ~avoidPartialRename
             /\ Returned(p) /\ Returned(q)
             /\ Delivered(c) /\ Delivered(d)
             /\ Key(c) # Key(d) /\ c.baseName = d.baseName
             /\ Sent(c) = Sent(d))
            => /\ c.rerr = NoErr /\ d.rerr = NoErr
               /\ c.dstPath = d.dstPath
               /\ Exists(fs, c.dstPath) /\ fs[c.dstPath] = Sent(c)
               /\ Cardinality({path \in DstFiles(fs) : fs[path] = Sent(c)}) = 1
               /\ ~Exists(fs, c.partialPath) /\ ~Exists(fs, d.partialPath)

\* C4 (as claimed): two calls that deliver the same name and different content
\* in default mode both succeed and end at two destination files, the name and
\* its NextFilename, each holding the content of its own call.
C4_CollisionKeepsBoth ==
    \A p, q \in Calls :
        LET c == call[p]
            d == call[q]
        IN  (/\ p # q /\ ~avoidPartialRename
             /\ Returned(p) /\ Returned(q)
             /\ Delivered(c) /\ Delivered(d)
             /\ c.baseName = d.baseName
             /\ Sent(c) # Sent(d)
             /\ DstFiles(fs) \subseteq {c.dstPath, d.dstPath})
            => /\ c.rerr = NoErr /\ d.rerr = NoErr
               /\ c.dstPath # d.dstPath
               /\ {c.dstPath, d.dstPath} =
                      {DstPath(c.baseName), NextFilename(DstPath(c.baseName))}
               /\ Exists(fs, c.dstPath) /\ fs[c.dstPath] = Sent(c)
               /\ Exists(fs, d.dstPath) /\ fs[d.dstPath] = Sent(d)

\* C5: a call in default mode that resumes at the end of the partial file it
\* finds (offset = N, the file's length) and whose reader gives the rest
\* succeeds, returns the length of the whole content, and the file it ends at
\* holds the partial file's bytes followed by the reader's.
C5_Resume ==
    \A p \in Calls :
        LET c == call[p]
        IN  (/\ ~avoidPartialRename
             /\ c.pc = "return"
             /\ Delivered(c)
             /\ c.offset = Len(c.prior))
            => /\ c.rerr = NoErr
               /\ c.ret = Len(c.prior) + Len(c.rd)
               /\ Exists(fs, c.dstPath)
               /\ fs[c.dstPath] = c.prior \o c.rd
               /\ ~Exists(fs, c.partialPath)

\* C5 witness: the first call failed and left a partial file of one byte or
\* more; the second call, with the same key, resumed at its end, read more
\* bytes and returns having published the whole.
C5_Witness ==
    /\ Returned(1) /\ call[1].admitted /\ call[1].rerr # NoErr
    /\ call[1].prior = <<>> /\ call[1].rd # <<>>
    /\ Key(call[2]) = Key(call[1])
    /\ call[2].pc = "return" /\ call[2].rerr = NoErr
    /\ call[2].offset >= 1 /\ call[2].offset = Len(call[2].prior)
    /\ call[2].rd # <<>>
    /\ ~avoidPartialRename
    /\ fs[call[2].dstPath] = call[1].rd \o call[2].rd

\* C6 (as claimed): a call whose offset is negative or beyond the end of the
\* partial file it opened returns an error, has read nothing from its reader,
\* and leaves the partial file as it found it.
C6_InvalidOffsetFails ==
    \A p \in Calls :
        LET c == call[p]
        IN  (/\ c.pc = "return"
             /\ c.site # "Create"
             /\ (c.offset < 0 \/ c.offset > Len(c.prior)))
            => /\ c.rerr # NoErr
               /\ c.rd = <<>>
               /\ fs[c.partialPath] = c.prior

\* C7 (as claimed): a call whose declared length is known and differs from the
\* number of bytes it copied returns an error and the length 0, and has not
\* entered the finalize protocol.
C7_LengthEnforced ==
    \A p \in Calls :
        LET c == call[p]
        IN  (/\ c.pc = "return"
             /\ c.length >= 0
             /\ c.copied # c.length)
            => /\ c.rerr # NoErr
               /\ c.ret = 0
               /\ c.site \in {"Seek", "Offset", "Truncate", "Copy", "Length", "Close"}

\* C8 (as claimed): a call in default mode that returns no error, its offset
\* valid, returns the length of the file it ends at, and that file holds the
\* first offset bytes of the partial file the call found followed by the bytes
\* of its reader.
C8_ReturnsWholeLength ==
    \A p \in Calls :
        LET c == call[p]
        IN  (/\ ~avoidPartialRename
             /\ c.pc = "return"
             /\ c.rerr = NoErr
             /\ c.offset >= 0 /\ c.offset <= Len(c.prior))
            => /\ Exists(fs, c.dstPath)
               /\ c.ret = Len(fs[c.dstPath])
               /\ fs[c.dstPath] = Sent(c)

\* C14: a call made with no manager or directory, with the feature gate off,
\* on a platform that disallows placement while DirectFileMode is unset, or
\* with a name that joinDir rejects, returns in the same step the error of the
\* first precondition that fails and the length 0; it is never admitted, and
\* that step leaves the registry, every file and knownEmpty as they were and
\* calls no notifier.
C14_PreconditionsFailFast ==
    /\ [][\A q \in Calls :
            (Made(q) /\ FailsPrecondition(call'[q]))
            => LET c == call'[q]
               IN  /\ c.rerr = (IF c.noDir \/ c.gateOff THEN "ErrNoTaildrop"
                                ELSE IF c.blocked THEN "ErrNotAccessible"
                                ELSE "PathError")
                   /\ c.ret = 0
                   /\ c.pc = "done"
                   /\ ~c.admitted
                   /\ incomingFiles' = incomingFiles
                   /\ fs' = fs
                   /\ knownEmpty' = knownEmpty
                   /\ c.doneNotify = 0 /\ c.notes = <<>>]_vars
    /\ [](\A q \in Calls :
            (call[q].pc # "idle" /\ FailsPrecondition(call[q]))
            => ~call[q].admitted /\ call[q].pc = "done" /\ call[q].rd = <<>>)

\* C14 witness: the second call was refused by the platform check while the
\* first call is past admission with its partial file open; the registry
\* holds the first call's key alone.
C14_Witness ==
    /\ call[2].pc = "done"
    /\ call[2].blocked /\ ~call[2].noDir /\ ~call[2].gateOff
    /\ call[2].rerr = "ErrNotAccessible"
    /\ call[1].pc = "copy" /\ Exists(fs, call[1].partialPath)
    /\ incomingFiles = {Key(call[1])}

\* The positions of the finalize protocol (lines 188-241).
FinalizePcs == {"lock", "stat", "rename", "hashPartial", "hashDst", "remove", "finish"}

FailSites == {"Seek", "Offset", "Truncate", "Copy", "Length", "Close"}

\* C12 (as claimed): when an admitted call that failed at a seek, at the
\* offset check, at the truncate, in the copy, at the length check or at the
\* close returns, its partial file is gone if the mode is no-rename (unless
\* the removal itself failed), and is there unchanged in every other mode.
C12_PartialFate ==
    [][\A p \in Calls :
         (/\ call[p].pc = "return" /\ call'[p].pc = "done"
          /\ call[p].site \in FailSites)
         => IF DirectFileMode /\ AvoidFinalRename
            THEN call'[p].rmFailed \/ ~Exists(fs', call[p].partialPath)
            ELSE /\ Exists(fs', call[p].partialPath)
                 /\ fs'[call[p].partialPath] = fs[call[p].partialPath]]_vars

\* C17 (as claimed): a call that is returning no error has stored
\* knownEmpty = false and called the notifier once, its file in place (the
\* destination file, or the partial file in no-rename mode); a call that is
\* returning an error has called no completion notifier, and the step that
\* brought it to that return left knownEmpty as it was.
C17_CompletionEffects ==
    /\ [](\A p \in Calls :
            LET c == call[p]
            IN  /\ (c.pc = "return" /\ c.rerr = NoErr)
                    => /\ ~knownEmpty
                       /\ c.doneNotify = 1
                       /\ IF DirectFileMode /\ AvoidFinalRename
                          THEN Exists(fs, c.partialPath)
                          ELSE Exists(fs, c.dstPath)
                /\ (c.pc \in {"return", "done"} /\ c.rerr # NoErr)
                    => c.doneNotify = 0)
    /\ [][\A p \in Calls :
            (call[p].pc \notin {"return", "done"} /\ call'[p].pc \in {"return", "done"}
             /\ call'[p].rerr # NoErr)
            => knownEmpty' = knownEmpty]_vars

\* C18 (as claimed): an admitted call in default mode that is returning no
\* error returns from the end of the finalize protocol, has copied every byte
\* it read, its partial file is gone, and the destination it ended at, the
\* name or a NextFilename successor of it, holds the received content.
C18_SuccessMeansPublished ==
    \A p \in Calls :
        LET c == call[p]
        IN  (/\ ~(DirectFileMode /\ AvoidFinalRename)
             /\ c.admitted /\ c.pc = "return"
             /\ c.rerr = NoErr)
            => /\ c.site = "Done"
               /\ c.copied = Len(c.rd)
               /\ ~Exists(fs, c.partialPath)
               /\ c.dstPath.base = c.baseName /\ c.dstPath.sfx = ""
               /\ Exists(fs, c.dstPath)
               /\ fs[c.dstPath] = Sent(c)

Stored(c) ==
    IF c.offset # 0 THEN Sent(c)
    ELSE c.rd \o SubSeq(c.prior, Len(c.rd) + 1, Len(c.prior))

\* The call has closed its partial file in default mode and has not returned
\* to its caller yet: it is in the finalize protocol, or leaving it.
Finalizing(c) ==
    \/ c.pc \in FinalizePcs
    \/ c.pc = "return"
       /\ c.site \in {"Stat", "Rename", "HashPartial", "HashDst", "Remove", "Retries", "Done"}

\* C20: the step in which the finalize protocol removes a partial file finds a
\* destination file at the call's name whose size is the call's final length
\* and whose digest is the partial file's; no step in default mode takes a
\* partial file away without a destination file holding its content
\* afterwards; and while a call finalizes, whatever fails, its content is in
\* its partial file or in a destination file of its name.
C20_NoDataLoss ==
    /\ [][\A p \in Calls :
            (call[p].pc = "remove" /\ ~Exists(fs', call[p].partialPath))
            => /\ Exists(fs, call[p].dstPath)
               /\ Len(fs[call[p].dstPath]) = call[p].fileLength
               /\ sha256(fs[call[p].dstPath]) = sha256(fs[call[p].partialPath])
               /\ fs'[call[p].dstPath] = fs[call[p].partialPath]]_vars
    /\ [][~(DirectFileMode /\ AvoidFinalRename)
          => \A path \in (DOMAIN fs) \ DstFiles(fs) :
                ~Exists(fs', path)
                => \E dst \in DstFiles(fs') :
                      dst.base = path.base /\ fs'[dst] = fs[path]]_vars
    /\ [](\A p \in Calls :
            Finalizing(call[p])
            => \/ /\ Exists(fs, call[p].partialPath)
                  /\ fs[call[p].partialPath] = Stored(call[p])
               \/ \E dst \in DstFiles(fs) :
                      dst.base = call[p].baseName /\ fs[dst] = Stored(call[p]))

\* C20 witness: two calls with different keys finalize the same content at the
\* same name; one renamed its partial file, the other found the match and
\* removed its own.
C20_Witness ==
    \E p, q \in Calls :
        /\ p # q
        /\ Key(call[p]) # Key(call[q])
        /\ call[p].pc = "finish" /\ call[p].partialSum # 0
        /\ call[p].rd # <<>>
        /\ ~Exists(fs, call[p].partialPath)
        /\ Finalizing(call[q]) /\ call[q].site = "Done"
        /\ call[q].dstPath = call[p].dstPath
        /\ fs[call[p].dstPath] = Stored(call[p])

\* C16: f.mu is held only between the update of the counters and the deferred
\* Unlock: it is free while the underlying writer writes and when the
\* notifier is about to be called; and the step that calls the notifier finds
\* the bytes of that Write counted and lastNotify set to that Write's clock
\* reading, and changes neither.
C16_WriteLockOrder ==
    /\ [](\A p \in Calls :
            LET c == call[p]
            IN  /\ c.mu => c.pc = "wunlock"
                /\ c.pc \in {"copy", "wupdate", "wnotify"} => ~c.mu
                /\ c.pc = "wnotify" => c.n = 0
                /\ (c.pc = "wnotify" /\ c.needNotify) => c.lastNotify = c.wnow)
    /\ [][\A p \in Calls :
            Len(call'[p].notes) > Len(call[p].notes)
            => /\ call[p].pc = "wnotify"
               /\ ~call[p].mu /\ ~call'[p].mu
               /\ call[p].n = 0
               /\ call'[p].copied = call[p].copied
               /\ call'[p].lastNotify = call[p].lastNotify
               /\ call[p].lastNotify = call[p].wnow
               /\ call'[p].notes = Append(call[p].notes, call[p].wnow)]_vars

\* C16 witness: the second notification of a transfer is about to be sent:
\* three bytes are counted, the lock is free.
C16_Witness ==
    /\ call[1].pc = "wnotify" /\ call[1].needNotify
    /\ Len(call[1].notes) = 1
    /\ call[1].copied = 3
    /\ ~call[1].mu

\* The candidate names a call tries: the name and its NextFilename successors.
RECURSIVE Candidate(_, _)
Candidate(name, i) ==
    IF i = 0 THEN DstPath(name) ELSE NextFilename(Candidate(name, i - 1))

\* The call is within an attempt of the finalize loop.
InAttempt(c) == c.pc \in {"lock", "stat", "rename", "hashPartial", "hashDst", "remove"}

\* Lines 216-225: the file found at a candidate name is not taken for the
\* call's content: its size is not the call's final length, or its digest is
\* not that of the partial file.
Differs(c, content) == Len(content) # c.fileLength \/ content # Stored(c)

\* C11: a call tries the name and at most nine NextFilename successors of it,
\* one per retry used.  It succeeds at whichever of these ten attempts it
\* renames or finds its content, the tenth included.  It returns the error of
\* the exhausted retries exactly after ten attempts, each of which found a
\* file of another size or digest: then it returns the length 0, its partial
\* file is in place and unchanged, and the destination files are those ten.
C11_BoundedRetries ==
    \A p \in Calls :
        LET c == call[p]
            tried == MaxRetries - c.maxRetries
        IN  /\ c.maxRetries \in 0..MaxRetries
            /\ c.admitted => c.dstPath = Candidate(c.baseName, tried)
            /\ InAttempt(c) => tried <= MaxRetries - 1
            /\ (InAttempt(c) \/ c.pc = "finish") =>
                  \A i \in 0..(tried - 1) :
                      /\ Exists(fs, Candidate(c.baseName, i))
                      /\ Differs(c, fs[Candidate(c.baseName, i)])
            /\ (c.pc = "return" /\ c.site = "Done") =>
                  /\ tried <= MaxRetries - 1
                  /\ c.rerr = NoErr
                  /\ fs[c.dstPath] = Stored(c)
                  /\ ~Exists(fs, c.partialPath)
            /\ (c.pc = "return" /\ c.rerr = "ErrTooManyRetries") <=>
                  (c.pc = "return" /\ c.site = "Retries")
            /\ (c.pc = "return" /\ c.site = "Retries") =>
                  /\ tried = MaxRetries
                  /\ c.ret = 0
                  /\ \A i \in 0..(MaxRetries - 1) :
                        /\ Exists(fs, Candidate(c.baseName, i))
                        /\ Differs(c, fs[Candidate(c.baseName, i)])
                  /\ Exists(fs, c.partialPath)
                  /\ fs[c.partialPath] = Stored(c)
                  /\ DstFiles(fs) = {Candidate(c.baseName, i) : i \in 0..(MaxRetries - 1)}

\* C11 witness: ten names were taken by files of the size of the call's
\* content and another digest; the call compared all ten and returns the error.
C11_Witness ==
    /\ call[1].pc = "return" /\ call[1].site = "Retries"
    /\ call[1].partialSum # 0
    /\ call[1].dstPath.n = MaxRetries
    /\ Cardinality(DstFiles(fs)) = MaxRetries

\* C15: every call past admission eventually returns; its key is then out of
\* the registry unless a later call holds it.  renameMu is held only by a call
\* at its stat or its rename, so its holder gives it up and no call waits for
\* it for ever.  A call whose reader failed returns that failure.
C15_EventuallyReturns ==
    /\ \A p \in Calls : Active(p) ~> Returned(p)
    /\ [](\A p \in Calls :
            /\ renameMu = p => call[p].pc \in {"stat", "rename"}
            /\ Returned(p) =>
                  \/ Key(call[p]) \notin incomingFiles
                  \/ \E q \in Calls \ {p} : Active(q) /\ Key(call[q]) = Key(call[p])
            /\ (call[p].pc = "return" /\ call[p].err = "ErrRead")
                  => call[p].rerr = "ErrRead" /\ call[p].ret = 0)

\* C15 witness: a call waits for renameMu while the other call, with the
\* lock, is about to rename; the first call's reader gave two bytes.
C15_Witness ==
    \E p, q \in Calls :
        /\ p # q
        /\ call[p].pc = "lock" /\ Len(call[p].rd) = 2
        /\ renameMu = q /\ call[q].pc = "rename"

====
